---------------------------- MODULE Spec2Model ----------------------------
(***************************************************************************)
(* The fatigue-detection hook useFaceDetection (src/src/hooks/             *)
(* useFaceDetection.ts, lines 1-323) as a state machine: its refs, its     *)
(* published React state, the requestAnimationFrame queue and the detector *)
(* calls in flight.                                                        *)
(*                                                                         *)
(* Units.  Time is in milliseconds (Date.now()).  perclos is kept in       *)
(* tenths of a percent (the code rounds it to one decimal), EAR and        *)
(* mouthOpenRatio in hundredths (the code rounds the ratio to two          *)
(* decimals), angles in whole degrees.                                     *)
(***************************************************************************)
EXTENDS Integers, Sequences, FiniteSets

VARIABLES
    \* React state of the hook
    isModelLoaded, metrics, alertLevel, history,
    \* refs of the hook (the session state)
    animationRef, eyeClosedFrames, totalFrames, blinkTimestamps,
    yawnTimestamps, lastEyeState, headPoseHistory, lastHistoryUpdate,
    frameSkip,
    \* environment: last reading of Date.now(), video element,
    \* animation-frame queue, detector calls
    now, videoPaused, scheduled, awaiting, orphaned, detections,
    \* history variables (observers, never read by the handlers)
    last, stoppedIdle, yawnRun,
    \* the analysis hook useFatigueAnalysis: its React state, its ref, the
    \* requests in flight, and the record of its calls (an observer)
    analysis, isAnalyzing, error, lastAnalysisTime, requests, analysisLog,
    \* the singleton FaceApiLoader: whether it was constructed, its fields,
    \* and the record of its calls (an observer)
    instance, loadPromise, isLoaded, loadError, listeners, loaderLog,
    \* the analyze-fatigue function: the last request it served and the
    \* response it returned
    served,
    \* the AlertSystem component: its lastNotifiedLevel state, and the toasts
    \* it raised and the levels it was rendered with (observers)
    notifier

session == <<eyeClosedFrames, totalFrames, blinkTimestamps, yawnTimestamps,
             lastEyeState, headPoseHistory, lastHistoryUpdate, frameSkip>>
published == <<metrics, alertLevel, history>>
loops == <<animationRef, scheduled, awaiting, orphaned, detections>>
environment == <<now, videoPaused>>
observers == <<last, stoppedIdle, yawnRun>>
analyzer == <<analysis, isAnalyzing, error, lastAnalysisTime, requests,
              analysisLog>>
loader == <<instance, loadPromise, isLoaded, loadError, listeners, loaderLog>>
vars == <<isModelLoaded, published, session, loops, environment, observers,
          analyzer, loader, served, notifier>>

---------------------------------------------------------------------------
(* Bounds of the model *)

\* Date.now() when the hook is constructed.
Epoch == 100000
\* Detector calls made in one behaviour.
MaxDetections == 2
\* Detection loops (scheduled callbacks plus detector calls in flight) alive
\* at the same time.
MaxLoops == 2

\* Milliseconds between two readings of Date.now() (it is read on
\* face-detected frames only, line 224).
Steps == {6000}
\* The spacings that tell the 5 s debounce and the 60 s windows apart.
WindowSteps == {2000, 5000, 6000, 61000}
\* Detector outputs: average EAR and mouth-open ratio in hundredths, pitch.
Ears == {20, 30}
Mors == {50, 60}
Poses == {[pitch |-> 0, yaw |-> 0, roll |-> 0]}

---------------------------------------------------------------------------
(* Program constants and pure helpers *)

\* useRef<number | null>(null): null and 0 are both falsy in stopDetection.
NULL == 0

Last(s) == s[Len(s)]
Range(s) == {s[i] : i \in DOMAIN s}

\* Math.round of the non-negative rational num/den.
RoundDiv(num, den) == (2 * num + den) \div (2 * den)

\* Array.prototype.slice(-n)
SliceLast(s, n) == IF Len(s) <= n THEN s ELSE SubSeq(s, Len(s) - n + 1, Len(s))

defaultMetrics ==
    [perclos |-> 0, blinkRate |-> 15, blinkPattern |-> "normal",
     yawnCount |-> 0, yawnFrequency |-> 0, mouthOpenRatio |-> 0,
     headPose |-> [pitch |-> 0, yaw |-> 0, roll |-> 0],
     noddingDetected |-> FALSE, eyesOpen |-> TRUE, faceDetected |-> FALSE]

\* the cascade tested from the lowest level upwards
determineAlertLevelLowestFirst(currentMetrics) ==
    LET perclos == currentMetrics.perclos
        blinkRate == currentMetrics.blinkRate
        yawnFrequency == currentMetrics.yawnFrequency
        noddingDetected == currentMetrics.noddingDetected
    IN  IF perclos < 25 * 10 /\ blinkRate >= 8 /\ blinkRate <= 25
               /\ yawnFrequency < 3 /\ ~noddingDetected
            THEN "alert"
        ELSE IF perclos >= 25 * 10 \/ blinkRate < 8 \/ blinkRate > 25
            THEN "drowsy"
        ELSE IF perclos >= 35 * 10 \/ yawnFrequency >= 3 THEN "fatigued"
        ELSE IF perclos >= 50 * 10 \/ yawnFrequency >= 5 THEN "severe"
        ELSE "critical"

\* the cascade with the critical threshold made strict
determineAlertLevelStrict(currentMetrics) ==
    LET perclos == currentMetrics.perclos
        blinkRate == currentMetrics.blinkRate
        yawnFrequency == currentMetrics.yawnFrequency
        noddingDetected == currentMetrics.noddingDetected
    IN  IF perclos > 70 * 10 \/ (noddingDetected /\ perclos >= 40 * 10)
            THEN "critical"
        ELSE IF perclos >= 50 * 10 \/ yawnFrequency >= 5 THEN "severe"
        ELSE IF perclos >= 35 * 10 \/ yawnFrequency >= 3 THEN "fatigued"
        ELSE IF perclos >= 25 * 10 \/ blinkRate < 8 \/ blinkRate > 25
            THEN "drowsy"
        ELSE "alert"

determineAlertLevel(currentMetrics) ==
    LET perclos == currentMetrics.perclos
        blinkRate == currentMetrics.blinkRate
        yawnFrequency == currentMetrics.yawnFrequency
        noddingDetected == currentMetrics.noddingDetected
    IN  IF perclos >= 70 * 10 \/ (noddingDetected /\ perclos >= 40 * 10)
            THEN "critical"
        ELSE IF perclos >= 50 * 10 \/ yawnFrequency >= 5 THEN "severe"
        ELSE IF perclos >= 35 * 10 \/ yawnFrequency >= 3 THEN "fatigued"
        ELSE IF perclos >= 25 * 10 \/ blinkRate < 8 \/ blinkRate > 25
            THEN "drowsy"
        ELSE "alert"

RECURSIVE SumSq(_, _, _)
\* sum over the intervals of (n * interval - sum)^2, i.e. n^2 times the
\* squared deviations from the average interval
SumSq(timestamps, n, sum) ==
    IF Len(timestamps) < 2 THEN 0
    ELSE LET dev == n * (timestamps[2] - timestamps[1]) - sum
         IN  dev * dev + SumSq(Tail(timestamps), n, sum)

\* the rate tested before the variance
determineBlinkPatternRateFirst(rate, timestamps) ==
    IF Len(timestamps) < 5 THEN "normal"
    ELSE LET n == Len(timestamps) - 1
             sum == Last(timestamps) - timestamps[1]
         IN  IF rate < 8 THEN "slow"
             ELSE IF rate > 25 THEN "rapid"
             ELSE IF SumSq(timestamps, n, sum) > 50000 * n * n * n
                 THEN "irregular"
             ELSE "normal"

determineBlinkPattern(rate, timestamps) ==
    IF Len(timestamps) < 5 THEN "normal"
    ELSE LET n == Len(timestamps) - 1
             sum == Last(timestamps) - timestamps[1]
         IN  \* variance > 50000, both sides multiplied by n^3
             IF SumSq(timestamps, n, sum) > 50000 * n * n * n THEN "irregular"
             ELSE IF rate < 8 THEN "slow"
             ELSE IF rate > 25 THEN "rapid"
             ELSE "normal"

---------------------------------------------------------------------------
(* The per-frame trackers of detect (face-detected branch) *)

\* const eyesOpen = avgEAR > 0.2;  const isYawning = mouthOpenRatio > 0.5;
EyesOpen(ear) == ear > 20
IsYawning(mor) == mor > 50

\* if (!eyesOpen) eyeClosedFrames.current++
TrackClosed(closed, eyesOpen) == IF ~eyesOpen THEN closed + 1 ELSE closed

\* the ratio damped by one imaginary open frame at the start of the session
PerclosWarmup(closed, total) == RoundDiv(closed * 1000, total + 1)

\* the ratio truncated to one decimal instead of rounded
PerclosTruncated(closed, total) == (closed * 1000) \div total

\* Math.round((closed / total) * 100 * 10) / 10, in tenths of a percent
Perclos(closed, total) == RoundDiv(closed * 1000, total)

\* level-triggered instead of edge-triggered
BlinkLevel(lastState, eyesOpen) == ~eyesOpen

\* the edge test of the blink tracker
BlinkEdge(lastState, eyesOpen) == lastState /\ ~eyesOpen

\* the blink list after the frame: the purge sits inside the if
TrackBlinks(timestamps, lastState, eyesOpen, t) ==
    IF BlinkEdge(lastState, eyesOpen)
        THEN LET Fresh(x) == t - x < 60000
             IN  SelectSeq(Append(timestamps, t), Fresh)
        ELSE timestamps

\* the debounce with >= in place of >
YawnGapInclusive(timestamps, t) ==
    \/ timestamps = <<>>
    \/ Last(timestamps) = 0
    \/ t - Last(timestamps) >= 5000

\* the debounce measured from the previous frame instead of the last event
YawnGapShort(timestamps, t) ==
    \/ timestamps = <<>>
    \/ Last(timestamps) = 0
    \/ t - Last(timestamps) > 1000

\* !lastYawn || now - lastYawn > 5000  (lastYawn is undefined on an empty list)
YawnGap(timestamps, t) ==
    \/ timestamps = <<>>
    \/ Last(timestamps) = 0
    \/ t - Last(timestamps) > 5000

\* the yawn list with the push but without the purge
TrackYawnsUnpurged(timestamps, isYawning, t) ==
    IF isYawning /\ YawnGap(timestamps, t)
        THEN Append(timestamps, t) ELSE timestamps

\* the yawn list after the frame: push when debounced, then purge every frame
TrackYawns(timestamps, isYawning, t) ==
    LET pushed == IF isYawning /\ YawnGap(timestamps, t)
                      THEN Append(timestamps, t) ELSE timestamps
        Fresh(x) == t - x < 60000
    IN  SelectSeq(pushed, Fresh)

\* the yawn count without the event recorded on the frame itself
YawnCountBefore(timestamps, t) ==
    Cardinality({i \in DOMAIN timestamps : timestamps[i] < t})

\* yawnCount: yawnTimestamps.current.length, read after the purge
YawnCount(timestamps, t) == Len(timestamps)

\* the pitch window after the frame
TrackHeadPose(poseHistory, pitch, t) ==
    LET Fresh(h) == t - h.timestamp < 3000
    IN  SelectSeq(Append(poseHistory, [pitch |-> pitch, timestamp |-> t]), Fresh)

\* the nod test with ten samples accepted
NoddingFromTen(poseHistory) ==
    IF Len(poseHistory) >= 10
        THEN LET pitches == {poseHistory[i].pitch : i \in DOMAIN poseHistory}
                 maxPitch == CHOOSE x \in pitches : \A y \in pitches : y <= x
                 minPitch == CHOOSE x \in pitches : \A y \in pitches : x <= y
             IN  maxPitch - minPitch > 15
        ELSE FALSE

\* more than 10 samples in the window and max - min of their pitch > 15
Nodding(poseHistory) ==
    IF Len(poseHistory) > 10
        THEN LET pitches == {poseHistory[i].pitch : i \in DOMAIN poseHistory}
                 maxPitch == CHOOSE x \in pitches : \A y \in pitches : y <= x
                 minPitch == CHOOSE x \in pitches : \A y \in pitches : x <= y
             IN  maxPitch - minPitch > 15
        ELSE FALSE

\* now - lastHistoryUpdate.current > 5000
HistoryDue(t, lastUpdate) == t - lastUpdate > 5000

\* the entry stamped with the level of the previous render
AppendHistoryStaleLevel(prev, entry) ==
    Append(SliceLast(prev, 60), [entry EXCEPT !.alertLevel = alertLevel])

\* [...prev.slice(-60), entry]
AppendHistory(prev, entry) == Append(SliceLast(prev, 60), entry)

---------------------------------------------------------------------------
(* Initial state: the hook as constructed (useState / useRef initial values) *)

noRun == [frames |-> 0, first |-> 0, events |-> 0]

\* useFatigueAnalysis as constructed: no analysis, no error (null is the
\* empty sequence), the cooldown ref at 0, nothing sent
AnalyzerInit ==
    /\ analysis = <<>>
    /\ isAnalyzing = FALSE
    /\ error = <<>>
    /\ lastAnalysisTime = 0
    /\ requests = {}
    /\ analysisLog = [calls |-> 0, face |-> FALSE, sent |-> <<>>,
                      settled |-> "none"]

\* the hooks as constructed, whatever the loader's state
HooksInit ==
    /\ isModelLoaded = FALSE
    /\ metrics = defaultMetrics
    /\ alertLevel = "alert"
    /\ history = <<>>
    /\ animationRef = NULL
    /\ eyeClosedFrames = 0
    /\ totalFrames = 0
    /\ blinkTimestamps = <<>>
    /\ yawnTimestamps = <<>>
    /\ lastEyeState = TRUE
    /\ headPoseHistory = <<>>
    /\ lastHistoryUpdate = 0
    /\ frameSkip = 0
    /\ now = Epoch
    /\ videoPaused = TRUE
    /\ scheduled = {}
    /\ awaiting = 0
    /\ orphaned = 0
    /\ detections = 0
    /\ last = [op |-> "init", orphan |-> FALSE, again |-> FALSE]
    /\ stoppedIdle = FALSE
    /\ yawnRun = noRun
    /\ AnalyzerInit
    /\ served = [method |-> "none", fatigueData |-> <<>>, response |-> <<>>]
    /\ notifier = [lastNotifiedLevel |-> "alert", toasts |-> <<>>,
                   seen |-> <<>>]

\* the hook's listener and one other subscriber
LoaderListeners == {"hook", "panel"}

\* what a listener has been told so far: how often it was called, and the
\* arguments of the latest call
unheard == [l \in LoaderListeners |->
               [calls |-> 0, loaded |-> FALSE, error |-> <<>>]]

\* a notification that reaches every listener there has ever been
NotifyEveryone(log, ls, loaded, err) ==
    [log EXCEPT !.heard =
        [l \in LoaderListeners |->
            [calls |-> @[l].calls + 1, loaded |-> loaded, error |-> err]]]

\* listener(this.isLoaded, this.loadError ?? undefined) for each listener
\* of ls (lines 56-58 and 64)
Notify(log, ls, loaded, err) ==
    [log EXCEPT !.heard =
        [l \in LoaderListeners |->
            IF l \in ls
                THEN [calls |-> @[l].calls + 1, loaded |-> loaded,
                      error |-> err]
                ELSE @[l]]]

\* The loader after the module was imported (getInstance at line 86 ran the
\* constructor, which started the load) and the hook's effect subscribed.
LoaderImported ==
    /\ instance = TRUE
    /\ loadPromise = "pending"
    /\ isLoaded = FALSE
    /\ loadError = <<>>
    /\ listeners = {"hook"}
    /\ loaderLog = Notify([calls |-> 0, loads |-> 1, outcomes |-> 0,
                            heard |-> unheard], {"hook"}, FALSE, <<>>)

\* the loader after the load has succeeded
LoaderReady ==
    /\ instance = TRUE
    /\ loadPromise = "settled"
    /\ isLoaded = TRUE
    /\ loadError = <<>>
    /\ listeners = {"hook"}
    /\ loaderLog = Notify(Notify([calls |-> 0, loads |-> 1, outcomes |-> 1,
                                   heard |-> unheard], {"hook"}, FALSE, <<>>),
                           {"hook"}, TRUE, <<>>)

Init == HooksInit /\ LoaderImported

---------------------------------------------------------------------------
(* Environment *)

\* the three model downloads resolve (lines 39-44)
LoadSucceeds ==
    /\ loadPromise = "pending"
    /\ loadPromise' = "settled"
    /\ isLoaded' = TRUE
    /\ loadError' = <<>>
    \* notifyListeners: the hook's listener calls setIsModelLoaded(loaded)
    /\ isModelLoaded' = IF "hook" \in listeners THEN TRUE ELSE isModelLoaded
    /\ loaderLog' = Notify([loaderLog EXCEPT !.outcomes = @ + 1],
                           listeners, TRUE, <<>>)
    /\ UNCHANGED <<instance, listeners, published, session, loops,
                   environment, observers, analyzer, served, notifier>>

\* faceApiLoader notifies the hook that the models are loaded
LoadModels == ~isModelLoaded /\ LoadSucceeds

\* the webcam stream starts playing in the video element
VideoPlay ==
    /\ videoPaused
    /\ videoPaused' = FALSE
    /\ UNCHANGED <<isModelLoaded, published, session, loops, now, observers,
                   analyzer, loader, served, notifier>>

\* the webcam stream is stopped: the video element is paused
VideoPause ==
    /\ ~videoPaused
    /\ videoPaused' = TRUE
    /\ UNCHANGED <<isModelLoaded, published, session, loops, now, observers,
                   analyzer, loader, served, notifier>>

---------------------------------------------------------------------------
(* The detection loop *)

\* requestAnimationFrame returns a handle that no pending callback and no
\* stored reference holds (handles are taken up to renaming).
FreshId(sched) ==
    CHOOSE i \in 1..(MaxLoops + 2) : i \notin sched /\ i # animationRef

liveLoops == Cardinality(scheduled) + awaiting + orphaned

\* an invocation of detect that processes the odd counts and skips the even
DetectEnterOddFirst(sched) ==
    IF videoPaused
        THEN /\ scheduled' = sched
             /\ UNCHANGED <<frameSkip, animationRef, awaiting, detections>>
        ELSE /\ frameSkip' = frameSkip + 1
             /\ IF (frameSkip + 1) % 2 = 0
                    THEN /\ animationRef' = FreshId(sched)
                         /\ scheduled' = sched \cup {FreshId(sched)}
                         /\ UNCHANGED <<awaiting, detections>>
                    ELSE /\ detections < MaxDetections
                         /\ detections' = detections + 1
                         /\ awaiting' = awaiting + 1
                         /\ scheduled' = sched
                         /\ UNCHANGED animationRef

\* One invocation of detect up to its first await or return; sched is the
\* animation-frame queue without the callback that is running.
DetectEnter(sched) ==
    IF videoPaused
        THEN /\ scheduled' = sched
             /\ UNCHANGED <<frameSkip, animationRef, awaiting, detections>>
        ELSE /\ frameSkip' = frameSkip + 1
             /\ IF (frameSkip + 1) % 2 # 0
                    THEN /\ animationRef' = FreshId(sched)
                         /\ scheduled' = sched \cup {FreshId(sched)}
                         /\ UNCHANGED <<awaiting, detections>>
                    ELSE /\ detections < MaxDetections
                         /\ detections' = detections + 1
                         /\ awaiting' = awaiting + 1
                         /\ scheduled' = sched
                         /\ UNCHANGED animationRef

\* startDetection without the isModelLoaded test
startDetectionUnloaded ==
    /\ liveLoops < MaxLoops
    /\ DetectEnter(scheduled) /\ UNCHANGED orphaned
    /\ last' = [op |-> "start", orphan |-> FALSE, again |-> FALSE]
    /\ stoppedIdle' = FALSE
    /\ UNCHANGED <<analyzer, loader, served, notifier,
                   isModelLoaded, published, eyeClosedFrames, totalFrames,
                   blinkTimestamps, yawnTimestamps, lastEyeState,
                   headPoseHistory, lastHistoryUpdate, environment, yawnRun>>

startDetection ==
    /\ liveLoops < MaxLoops
    /\ IF ~isModelLoaded
           THEN UNCHANGED <<frameSkip, loops>>
           ELSE DetectEnter(scheduled) /\ UNCHANGED orphaned
    /\ last' = [op |-> "start", orphan |-> FALSE, again |-> FALSE]
    /\ stoppedIdle' = FALSE
    /\ UNCHANGED <<analyzer, loader, served, notifier,
                   isModelLoaded, published, eyeClosedFrames, totalFrames,
                   blinkTimestamps, yawnTimestamps, lastEyeState,
                   headPoseHistory, lastHistoryUpdate, environment, yawnRun>>

\* the browser runs a scheduled animation-frame callback
RunFrame ==
    \E id \in scheduled :
        /\ DetectEnter(scheduled \ {id})
        /\ last' = [op |-> "frame", orphan |-> FALSE, again |-> FALSE]
        /\ UNCHANGED <<analyzer, loader, served, notifier,
                       isModelLoaded, published, eyeClosedFrames, totalFrames,
                       blinkTimestamps, yawnTimestamps, lastEyeState,
                       headPoseHistory, lastHistoryUpdate, orphaned,
                       environment, stoppedIdle, yawnRun>>

\* The end of every continuation of detect: the awaited call is over and
\* the next iteration is scheduled (line 294), whatever happened before.
Settle(orphan) ==
    /\ IF orphan
           THEN orphaned > 0 /\ orphaned' = orphaned - 1 /\ UNCHANGED awaiting
           ELSE awaiting > 0 /\ awaiting' = awaiting - 1 /\ UNCHANGED orphaned
    /\ animationRef' = FreshId(scheduled)
    /\ scheduled' = scheduled \cup {FreshId(scheduled)}
    /\ UNCHANGED <<analyzer, loader, served, notifier, isModelLoaded, videoPaused, frameSkip, detections,
                   stoppedIdle>>

\* the face-detected branch of a continuation of detect (lines 196-286)
FaceBranch(orphan, d, ear, mor, pose) ==
    LET t == now + d
        eyesOpen == EyesOpen(ear)
        total == totalFrames + 1
        closed == TrackClosed(eyeClosedFrames, eyesOpen)
        blinks == TrackBlinks(blinkTimestamps, lastEyeState, eyesOpen, t)
        yawns == TrackYawns(yawnTimestamps, IsYawning(mor), t)
        poses == TrackHeadPose(headPoseHistory, pose.pitch, t)
        newMetrics ==
            [perclos |-> Perclos(closed, total),
             blinkRate |-> Len(blinks),
             blinkPattern |-> determineBlinkPattern(Len(blinks), blinks),
             yawnCount |-> YawnCount(yawns, t),
             yawnFrequency |-> Len(yawns),
             mouthOpenRatio |-> mor,
             headPose |-> pose,
             noddingDetected |-> Nodding(poses),
             eyesOpen |-> eyesOpen,
             faceDetected |-> TRUE]
    IN  /\ now' = t
        /\ totalFrames' = total
        /\ eyeClosedFrames' = closed
        /\ blinkTimestamps' = blinks
        /\ lastEyeState' = eyesOpen
        /\ yawnTimestamps' = yawns
        /\ headPoseHistory' = poses
        /\ metrics' = newMetrics
        /\ alertLevel' = determineAlertLevel(newMetrics)
        /\ IF HistoryDue(t, lastHistoryUpdate)
               THEN /\ lastHistoryUpdate' = t
                    /\ history' = AppendHistory(history,
                           [timestamp |-> t,
                            perclos |-> newMetrics.perclos,
                            alertLevel |-> determineAlertLevel(newMetrics),
                            blinkRate |-> newMetrics.blinkRate,
                            yawnCount |-> newMetrics.yawnCount])
               ELSE UNCHANGED <<lastHistoryUpdate, history>>
        /\ last' = [op |-> "face", orphan |-> orphan, again |-> FALSE]
        /\ yawnRun' =
               IF IsYawning(mor)
                   THEN [frames |-> yawnRun.frames + 1,
                         first |-> IF yawnRun.frames = 0 THEN t
                                   ELSE yawnRun.first,
                         events |-> yawnRun.events
                                    + (IF t \in Range(yawns) THEN 1 ELSE 0)]
                   ELSE noRun

\* the detector resolves with a face
ResolveFace(orphan, d, ear, mor, pose) ==
    /\ Settle(orphan)
    /\ FaceBranch(orphan, d, ear, mor, pose)

\* a lost face publishing the default metrics
ResolveNoFaceDefaults(orphan) ==
    /\ Settle(orphan)
    /\ metrics' = defaultMetrics
    /\ last' = [op |-> "noface", orphan |-> orphan, again |-> FALSE]
    /\ UNCHANGED <<alertLevel, history, eyeClosedFrames, totalFrames,
                   blinkTimestamps, yawnTimestamps, lastEyeState,
                   headPoseHistory, lastHistoryUpdate, now, yawnRun>>

\* the detector resolves without a face
ResolveNoFace(orphan) ==
    /\ Settle(orphan)
    /\ metrics' = [metrics EXCEPT !.faceDetected = FALSE]
    /\ last' = [op |-> "noface", orphan |-> orphan, again |-> FALSE]
    /\ UNCHANGED <<alertLevel, history, eyeClosedFrames, totalFrames,
                   blinkTimestamps, yawnTimestamps, lastEyeState,
                   headPoseHistory, lastHistoryUpdate, now, yawnRun>>

\* a rejected call that ends the loop: nothing scheduled after the catch
ResolveErrorEndsLoop(orphan) ==
    /\ IF orphan
           THEN orphaned > 0 /\ orphaned' = orphaned - 1 /\ UNCHANGED awaiting
           ELSE awaiting > 0 /\ awaiting' = awaiting - 1 /\ UNCHANGED orphaned
    /\ last' = [op |-> "error", orphan |-> orphan, again |-> FALSE]
    /\ UNCHANGED <<analyzer, loader, served, notifier, isModelLoaded, published, session, animationRef,
                   scheduled, detections, environment, stoppedIdle, yawnRun>>

\* the detector call rejects: caught and logged
ResolveError(orphan) ==
    /\ Settle(orphan)
    /\ last' = [op |-> "error", orphan |-> orphan, again |-> FALSE]
    /\ UNCHANGED <<published, eyeClosedFrames, totalFrames, blinkTimestamps,
                   yawnTimestamps, lastEyeState, headPoseHistory,
                   lastHistoryUpdate, now, yawnRun>>

\* the resets with the closed-frame counter forgotten
ResetSessionKeepClosed ==
    /\ UNCHANGED eyeClosedFrames
    /\ totalFrames' = 0
    /\ blinkTimestamps' = <<>>
    /\ yawnTimestamps' = <<>>
    /\ headPoseHistory' = <<>>
    /\ frameSkip' = 0

\* the resets with the frame-skip phase flipped instead of cleared
ResetSessionFlipSkip ==
    /\ eyeClosedFrames' = 0
    /\ totalFrames' = 0
    /\ blinkTimestamps' = <<>>
    /\ yawnTimestamps' = <<>>
    /\ headPoseHistory' = <<>>
    /\ frameSkip' = IF frameSkip = 0 THEN 1 ELSE 0

\* the resets of stopDetection (lines 305-310)
ResetSession ==
    /\ eyeClosedFrames' = 0
    /\ totalFrames' = 0
    /\ blinkTimestamps' = <<>>
    /\ yawnTimestamps' = <<>>
    /\ headPoseHistory' = <<>>
    /\ frameSkip' = 0

\* a stop that also clears what was published
stopDetectionClearsPublished ==
    /\ IF animationRef # NULL
           THEN /\ scheduled' = scheduled \ {animationRef}
                /\ animationRef' = NULL
           ELSE UNCHANGED <<scheduled, animationRef>>
    /\ ResetSession
    /\ orphaned' = orphaned + awaiting
    /\ awaiting' = 0
    /\ metrics' = defaultMetrics
    /\ alertLevel' = "alert"
    /\ history' = <<>>
    /\ last' = [op |-> "stop", orphan |-> FALSE, again |-> last.op = "stop"]
    /\ stoppedIdle' = (awaiting + orphaned = 0)
    /\ yawnRun' = noRun
    /\ UNCHANGED <<analyzer, loader, served, notifier,
                   isModelLoaded, lastEyeState, lastHistoryUpdate,
                   detections, environment>>

stopDetection ==
    /\ IF animationRef # NULL
           THEN /\ scheduled' = scheduled \ {animationRef}
                /\ animationRef' = NULL
           ELSE UNCHANGED <<scheduled, animationRef>>
    /\ ResetSession
    \* detector calls still in flight outlive the stop
    /\ orphaned' = orphaned + awaiting
    /\ awaiting' = 0
    /\ last' = [op |-> "stop", orphan |-> FALSE, again |-> last.op = "stop"]
    /\ stoppedIdle' = (awaiting + orphaned = 0)
    /\ yawnRun' = noRun
    /\ UNCHANGED <<analyzer, loader, served, notifier,
                   isModelLoaded, published, lastEyeState, lastHistoryUpdate,
                   detections, environment>>

\* a detector call in flight settles: with a face, without one, or by throwing
Resolve(steps) ==
    \E orphan \in BOOLEAN :
        \/ \E d \in steps, ear \in Ears, mor \in Mors, pose \in Poses :
              ResolveFace(orphan, d, ear, mor, pose)
        \/ ResolveNoFace(orphan)
        \/ ResolveError(orphan)

(* The hook in its full environment: model loading, the video element       *)
(* playing and pausing, any order of start and stop calls.                 *)
Next ==
    \/ LoadModels
    \/ VideoPlay
    \/ VideoPause
    \/ startDetection
    \/ RunFrame
    \/ Resolve(Steps)
    \/ stopDetection

Spec == Init /\ [][Next]_vars

(* A page that starts detection and never calls stopDetection: whatever   *)
(* runs after the first invocation of detect belongs to a running session. *)
NextRun ==
    \/ LoadModels
    \/ VideoPlay
    \/ VideoPause
    \/ startDetection
    \/ RunFrame
    \/ Resolve(Steps)

SpecRun == Init /\ [][NextRun]_vars

(* The full environment under the browser's scheduling: a scheduled        *)
(* animation-frame callback is eventually run and a detector call that is  *)
(* in flight eventually settles.  Nothing obliges the page to call start   *)
(* or stop, nor the video to play or pause.                                *)
SpecLive ==
    /\ Init
    /\ [][Next]_vars
    /\ WF_vars(RunFrame)
    /\ WF_vars(Resolve(Steps))

(* The hook once the models are loaded and while the video keeps playing,  *)
(* with frames at the spacings the rolling windows distinguish.            *)
InitWindow ==
    /\ isModelLoaded = TRUE
    /\ metrics = defaultMetrics
    /\ alertLevel = "alert"
    /\ history = <<>>
    /\ animationRef = NULL
    /\ eyeClosedFrames = 0
    /\ totalFrames = 0
    /\ blinkTimestamps = <<>>
    /\ yawnTimestamps = <<>>
    /\ lastEyeState = TRUE
    /\ headPoseHistory = <<>>
    /\ lastHistoryUpdate = 0
    /\ frameSkip = 0
    /\ now = Epoch
    /\ videoPaused = FALSE
    /\ scheduled = {}
    /\ awaiting = 0
    /\ orphaned = 0
    /\ detections = 0
    /\ last = [op |-> "init", orphan |-> FALSE, again |-> FALSE]
    /\ stoppedIdle = FALSE
    /\ yawnRun = noRun
    /\ AnalyzerInit
    /\ served = [method |-> "none", fatigueData |-> <<>>, response |-> <<>>]
    /\ notifier = [lastNotifiedLevel |-> "alert", toasts |-> <<>>,
                   seen |-> <<>>]
    /\ LoaderReady

NextWindow ==
    \/ startDetection
    \/ RunFrame
    \/ Resolve(WindowSteps)
    \/ stopDetection

SpecWindow == InitWindow /\ [][NextWindow]_vars

---------------------------------------------------------------------------
(* One session of a single loop in which every detector call finds a face. *)

\* the first startDetection() of the page
SessionStart == liveLoops = 0 /\ startDetection

\* One turn of the single running loop: the scheduled callback calls the
\* detector (frameSkip becomes even), the continuation processes the face
\* and schedules the next callback, and that callback is the skipped one
\* (frameSkip becomes odd) and schedules the following.  The handle held at
\* the end is the one held at the start (handles are taken up to renaming).
FaceCycle(maxFrames, d, ear, mor, pose) ==
    /\ isModelLoaded /\ ~videoPaused
    /\ awaiting = 0 /\ orphaned = 0
    /\ animationRef # NULL /\ scheduled = {animationRef}
    /\ frameSkip % 2 = 1
    /\ totalFrames < maxFrames
    /\ frameSkip' = frameSkip + 2
    /\ detections' = detections + 1
    /\ FaceBranch(FALSE, d, ear, mor, pose)
    /\ UNCHANGED <<analyzer, loader, served, notifier,
                   isModelLoaded, videoPaused, animationRef, scheduled,
                   awaiting, orphaned, stoppedIdle>>

\* Face-detected frames of one session of the nod detector.
MaxNodFrames == 11
\* 290 ms between frames: the 3000 ms pitch window holds eleven samples
NodSteps == {290}
NodPoses == {[pitch |-> p, yaw |-> 0, roll |-> 0] : p \in {0, 14, 16}}

NextNod ==
    \/ SessionStart
    \/ \E d \in NodSteps, pose \in NodPoses :
           FaceCycle(MaxNodFrames, d, 30, 50, pose)

SpecNod == InitWindow /\ [][NextNod]_vars

\* Face-detected frames of one session that fills the history buffer.
MaxHistoryFrames == 62
\* 6000 ms between frames: every frame is due for a history entry
HistorySteps == {6000}
HistoryPoses == {[pitch |-> p, yaw |-> 0, roll |-> 0] : p \in {0, 16}}

NextHistory ==
    \/ SessionStart
    \/ \E d \in HistorySteps, pose \in HistoryPoses :
           FaceCycle(MaxHistoryFrames, d, 30, 50, pose)

SpecHistory == InitWindow /\ [][NextHistory]_vars

\* Face-detected frames of the sessions of one page, eyes open or closed,
\* stopped and started again at any moment between two frames.
MaxSessionFrames == 6
\* 2000 ms between frames, or 61000 ms: the frame before has left the
\* 60000 ms windows of the blink and yawn trackers
SessionSteps == {2000, 61000}

NextSession ==
    \/ SessionStart
    \/ \E d \in SessionSteps, ear \in Ears :
           /\ detections < MaxSessionFrames
           /\ FaceCycle(MaxSessionFrames, d, ear, 50,
                        [pitch |-> 0, yaw |-> 0, roll |-> 0])
    \/ stopDetection

SpecSession == InitWindow /\ [][NextSession]_vars

\* Face-detected frames of one session long enough for a normal blink
\* rate: eight blinks with less than a quarter of the frames closed take
\* 33 frames, and one more frame follows them.
MaxBlinkFrames == 34
\* the eyes close at most on every fourth frame, for one frame
BlinkSpacing == 4
\* 100 ms between processed frames
BlinkFrameStep == 100
\* a pause after which every blink recorded before it is older than the
\* 60000 ms window; taken at most once in a session
BlinkPause == 61000

NextBlink ==
    \/ SessionStart
    \/ \E d \in {BlinkFrameStep, BlinkPause}, ear \in Ears :
           /\ EyesOpen(ear) \/ totalFrames % BlinkSpacing = 0
           /\ d = BlinkFrameStep
                 \/ now = Epoch + BlinkFrameStep * totalFrames
           /\ FaceCycle(MaxBlinkFrames, d, ear, 50,
                        [pitch |-> 0, yaw |-> 0, roll |-> 0])

SpecBlink == InitWindow /\ [][NextBlink]_vars

\* Face-detected frames of one session of yawns: the thirteenth event is
\* recorded on the thirteenth frame, and one more frame follows.
MaxYawnFrames == 14
\* 5001 ms between frames: every mouth-open frame passes the debounce, and
\* the window of 60000 ms holds twelve such frames
YawnSteps == {5001}

NextYawn ==
    \/ SessionStart
    \/ \E d \in YawnSteps, mor \in Mors :
           FaceCycle(MaxYawnFrames, d, 30, mor,
                     [pitch |-> 0, yaw |-> 0, roll |-> 0])

SpecYawn == InitWindow /\ [][NextYawn]_vars

---------------------------------------------------------------------------
(* The blink-pattern classifier on its own: any rate with any timestamps.  *)

\* Timestamps handed to determineBlinkPattern.
MaxPatternStamps == 6
\* intervals between blinks: around an average of 1000 ms, the variance of
\* four intervals reaches 50000 exactly with 700, 900, 1100, 1300
PatternIntervals == {700, 900, 1100, 1300}
PatternRates == {0, 7, 8, 25, 26}

\* blinkPattern: determineBlinkPattern(blinkRate, blinkTimestamps.current)
\* for a list one blink longer and any rate
PatternSample(iv, rate) ==
    LET stamps == Append(blinkTimestamps, now + iv)
        newMetrics ==
            [metrics EXCEPT !.blinkRate = rate,
                            !.blinkPattern = determineBlinkPattern(rate, stamps)]
    IN  /\ Len(blinkTimestamps) < MaxPatternStamps
        /\ now' = now + iv
        /\ blinkTimestamps' = stamps
        /\ metrics' = newMetrics
        /\ alertLevel' = determineAlertLevel(newMetrics)
        /\ UNCHANGED <<analyzer, loader, served, notifier,
                       isModelLoaded, history, eyeClosedFrames, totalFrames,
                       yawnTimestamps, lastEyeState, headPoseHistory,
                       lastHistoryUpdate, frameSkip, loops, videoPaused,
                       observers>>

NextPattern == \E iv \in PatternIntervals, rate \in PatternRates :
                   PatternSample(iv, rate)

SpecPattern == Init /\ [][NextPattern]_vars

---------------------------------------------------------------------------
(* The PERCLOS path on its own: the two frame counters, the rounded ratio  *)
(* and the level derived from it, with the blink and yawn signals at rest. *)

\* Face-detected frames counted: 203 is the shortest session in which a
\* ratio below 70% is published as 70.0 (142 closed frames of 203)
MaxPerclosFrames == 203

\* lines 217-221, 255 and 271-272 for a frame with the given eye aspect
\* ratio and nod verdict
PerclosSample(ear, nodding) ==
    LET eyesOpen == EyesOpen(ear)
        total == totalFrames + 1
        closed == TrackClosed(eyeClosedFrames, eyesOpen)
        newMetrics ==
            [metrics EXCEPT !.perclos = Perclos(closed, total),
                            !.noddingDetected = nodding,
                            !.eyesOpen = eyesOpen,
                            !.faceDetected = TRUE]
    IN  /\ totalFrames < MaxPerclosFrames
        /\ totalFrames' = total
        /\ eyeClosedFrames' = closed
        /\ lastEyeState' = eyesOpen
        /\ metrics' = newMetrics
        /\ alertLevel' = determineAlertLevel(newMetrics)
        /\ UNCHANGED <<analyzer, loader, served, notifier,
                       isModelLoaded, history, blinkTimestamps,
                       yawnTimestamps, headPoseHistory, lastHistoryUpdate,
                       frameSkip, loops, environment, observers>>

NextPerclos == \E ear \in Ears, nodding \in BOOLEAN :
                   PerclosSample(ear, nodding)

SpecPerclos == Init /\ [][NextPerclos]_vars

---------------------------------------------------------------------------
(* The classifier on its own: any snapshot may be published.               *)

\* perclos in tenths of a percent, around every threshold of the cascade
ClassifierPerclos ==
    {0, 100, 249, 250, 349, 350, 399, 400, 499, 500, 699, 700, 720, 1000}
ClassifierBlinkRates == {0, 7, 8, 15, 25, 26}
ClassifierYawns == {0, 2, 3, 4, 5}

ClassifierInputs ==
    {[defaultMetrics EXCEPT !.perclos = p, !.blinkRate = b,
                            !.yawnCount = y, !.yawnFrequency = y,
                            !.noddingDetected = n, !.faceDetected = TRUE] :
        p \in ClassifierPerclos, b \in ClassifierBlinkRates,
        y \in ClassifierYawns, n \in BOOLEAN}

\* setMetrics(newMetrics); setAlertLevel(determineAlertLevel(newMetrics))
Publish(newMetrics) ==
    /\ metrics' = newMetrics
    /\ alertLevel' = determineAlertLevel(newMetrics)
    /\ UNCHANGED <<analyzer, loader, served, notifier,
                   isModelLoaded, history, session, loops, environment,
                   observers>>

NextClassify == \E m \in ClassifierInputs : Publish(m)

SpecClassify == Init /\ [][NextClassify]_vars

---------------------------------------------------------------------------
(* The analysis hook useFatigueAnalysis (src/unnamed/part_005): requests   *)
(* to the analyze-fatigue function, at most one per cooldown.              *)

\* const ANALYSIS_COOLDOWN = 30000; // 30 seconds between analyses
ANALYSIS_COOLDOWN == 30000

\* analyzeMetrics calls in one behaviour.
MaxAnalysisCalls == 4
\* Milliseconds between the Date.now() readings of two analyzeMetrics calls.
AnalysisSteps == {10000, 29999, 30000}
\* the metrics argument: only faceDetected is read before the request
AnalysisInputs == {[defaultMetrics EXCEPT !.faceDetected = f] : f \in BOOLEAN}

\* a cooldown of 3 seconds
CoolingBrief(t, lastTime) == t - lastTime < 3000

\* now - lastAnalysisTime.current < ANALYSIS_COOLDOWN
Cooling(t, lastTime) == t - lastTime < ANALYSIS_COOLDOWN

\* analyzeMetrics(m, alertLevel) up to its await: the two early returns, or
\* the request is sent; d is the time since the last reading of the clock
analyzeMetrics(d, m) ==
    LET t == now + d
    IN  /\ analysisLog.calls < MaxAnalysisCalls
        /\ now' = t
        /\ IF Cooling(t, lastAnalysisTime) \/ ~m.faceDetected
               THEN /\ UNCHANGED <<analysis, isAnalyzing, error,
                                   lastAnalysisTime, requests>>
                    /\ analysisLog' =
                           [analysisLog EXCEPT !.calls = @ + 1,
                                               !.face = m.faceDetected]
               ELSE /\ isAnalyzing' = TRUE
                    /\ error' = <<>>
                    /\ lastAnalysisTime' = t
                    /\ requests' = requests \cup {t}
                    /\ UNCHANGED analysis
                    /\ analysisLog' =
                           [analysisLog EXCEPT
                               !.calls = @ + 1,
                               !.face = m.faceDetected,
                               !.sent = Append(@, t)]
        /\ UNCHANGED <<isModelLoaded, published, session, loops,
                       videoPaused, observers, loader, served, notifier>>

\* the request sent at time r resolves with an analysis
AnalysisSucceeds ==
    \E r \in requests :
        /\ requests' = requests \ {r}
        /\ analysis' = <<r>>
        /\ isAnalyzing' = FALSE
        /\ analysisLog' = [analysisLog EXCEPT !.settled = "success"]
        /\ UNCHANGED <<error, lastAnalysisTime, isModelLoaded,
                       published, session, loops, environment, observers,
                       loader, served, notifier>>

\* a failed request that also drops the stored analysis
AnalysisFailsClears ==
    \E r \in requests :
        /\ requests' = requests \ {r}
        /\ analysis' = <<>>
        /\ error' = <<"Analysis failed">>
        /\ isAnalyzing' = FALSE
        /\ analysisLog' = [analysisLog EXCEPT !.settled = "failure"]
        /\ UNCHANGED <<lastAnalysisTime,
                       isModelLoaded, published, session, loops,
                       environment, observers, loader, served, notifier>>

\* a failed request that gives the cooldown back
AnalysisFailsAllowsRetry ==
    \E r \in requests :
        /\ requests' = requests \ {r}
        /\ error' = <<"Analysis failed">>
        /\ isAnalyzing' = FALSE
        /\ lastAnalysisTime' = 0
        /\ analysisLog' = [analysisLog EXCEPT !.settled = "failure"]
        /\ UNCHANGED <<analysis,
                       isModelLoaded, published, session, loops,
                       environment, observers, loader, served, notifier>>

\* the request sent at time r fails: transport error, function error or an
\* error field in the response
AnalysisFails ==
    \E r \in requests :
        /\ requests' = requests \ {r}
        /\ error' = <<"Analysis failed">>
        /\ isAnalyzing' = FALSE
        /\ analysisLog' = [analysisLog EXCEPT !.settled = "failure"]
        /\ UNCHANGED <<analysis, lastAnalysisTime,
                       isModelLoaded, published, session, loops,
                       environment, observers, loader, served, notifier>>

clearAnalysis ==
    /\ analysis' = <<>>
    /\ error' = <<>>
    /\ UNCHANGED <<isAnalyzing, lastAnalysisTime, requests, analysisLog,
                   isModelLoaded, published, session, loops, environment,
                   observers, loader, served, notifier>>

NextAnalysis ==
    \/ \E d \in AnalysisSteps, m \in AnalysisInputs : analyzeMetrics(d, m)
    \/ AnalysisSucceeds
    \/ AnalysisFails
    \/ clearAnalysis

SpecAnalysis == Init /\ [][NextAnalysis]_vars

(* The page: one detection session whose published metrics are handed to   *)
(* analyzeMetrics (Index, src/src/types/fatigue.ts lines 123-134).         *)

\* Face-detected frames of the session on the page.
MaxPageFrames == 2
PageSteps == {30000}

NextPage ==
    \/ SessionStart
    \/ \E d \in PageSteps, ear \in Ears :
           FaceCycle(MaxPageFrames, d, ear, 50, [pitch |-> 0, yaw |-> 0,
                                                roll |-> 0])
    \/ \E d \in PageSteps : analyzeMetrics(d, metrics)
    \/ AnalysisSucceeds
    \/ AnalysisFails

SpecPage == InitWindow /\ [][NextPage]_vars

---------------------------------------------------------------------------
(* The singleton FaceApiLoader (src/unnamed/part_004) on its own, from     *)
(* before the module is imported.                                          *)

\* Calls of the loader's methods in one behaviour.
MaxLoaderCalls == 10
LoaderFresh ==
    /\ instance = FALSE
    /\ loadPromise = "null"
    /\ isLoaded = FALSE
    /\ loadError = <<>>
    /\ listeners = {}
    /\ loaderLog = [calls |-> 0, loads |-> 0, outcomes |-> 0,
                    heard |-> unheard]

InitLoader == HooksInit /\ LoaderFresh

\* one more call of a method of the loader
LoaderCall(log) == [log EXCEPT !.calls = @ + 1]

\* a load started by every call, with no look at loadPromise
LoadEveryTime(log) ==
    /\ loadPromise' = "pending"
    /\ loaderLog' = [log EXCEPT !.loads = @ + 1]

\* the body of loadModels: if (this.loadPromise) return this.loadPromise;
\* otherwise the load starts and its promise is stored
LoadOnce(log) ==
    IF loadPromise # "null"
        THEN loadPromise' = loadPromise /\ loaderLog' = log
        ELSE /\ loadPromise' = "pending"
             /\ loaderLog' = [log EXCEPT !.loads = @ + 1]

\* getInstance(): the first call constructs the loader, whose constructor
\* calls loadModels
getInstance ==
    /\ loaderLog.calls < MaxLoaderCalls
    /\ instance' = TRUE
    /\ IF instance
           THEN loadPromise' = loadPromise
                /\ loaderLog' = LoaderCall(loaderLog)
           ELSE LoadOnce(LoaderCall(loaderLog))
    /\ UNCHANGED <<isLoaded, loadError, listeners, isModelLoaded, published,
                   session, loops, environment, observers, analyzer, served, notifier>>

loadModels ==
    /\ instance
    /\ loaderLog.calls < MaxLoaderCalls
    /\ LoadOnce(LoaderCall(loaderLog))
    /\ UNCHANGED <<instance, isLoaded, loadError, listeners, isModelLoaded,
                   published, session, loops, environment, observers,
                   analyzer, served, notifier>>

\* subscribe(listener): added, then called at once with the current state
subscribe(l) ==
    /\ instance
    /\ loaderLog.calls < MaxLoaderCalls
    /\ listeners' = listeners \cup {l}
    /\ isModelLoaded' = IF l = "hook" THEN isLoaded ELSE isModelLoaded
    /\ loaderLog' = Notify(LoaderCall(loaderLog), {l}, isLoaded, loadError)
    /\ UNCHANGED <<instance, loadPromise, isLoaded, loadError, published,
                   session, loops, environment, observers, analyzer, served, notifier>>

\* the function subscribe returned is called
unsubscribe(l) ==
    /\ l \in listeners
    /\ listeners' = listeners \ {l}
    /\ UNCHANGED <<instance, loadPromise, isLoaded, loadError, loaderLog,
                   isModelLoaded, published, session, loops, environment,
                   observers, analyzer, served, notifier>>

\* waitForLoad(): awaits the stored promise, changes nothing
waitForLoad ==
    /\ instance
    /\ loaderLog.calls < MaxLoaderCalls
    /\ loaderLog' = LoaderCall(loaderLog)
    /\ UNCHANGED <<instance, loadPromise, isLoaded, loadError, listeners,
                   isModelLoaded, published, session, loops, environment,
                   observers, analyzer, served, notifier>>

\* one of the model downloads rejects (lines 45-49)
LoadFails ==
    /\ loadPromise = "pending"
    /\ loadPromise' = "settled"
    /\ loadError' = <<"Failed to load AI models. Please refresh.">>
    \* the hook's listener calls setIsModelLoaded(loaded)
    /\ isModelLoaded' = IF "hook" \in listeners THEN isLoaded
                        ELSE isModelLoaded
    /\ loaderLog' = Notify([loaderLog EXCEPT !.outcomes = @ + 1],
                           listeners, isLoaded,
                           <<"Failed to load AI models. Please refresh.">>)
    /\ UNCHANGED <<instance, isLoaded, listeners, published, session, loops,
                   environment, observers, analyzer, served, notifier>>

NextLoader ==
    \/ getInstance
    \/ loadModels
    \/ \E l \in LoaderListeners : subscribe(l)
    \/ \E l \in LoaderListeners : unsubscribe(l)
    \/ waitForLoad
    \/ LoadSucceeds
    \/ LoadFails

SpecLoader == InitLoader /\ [][NextLoader]_vars

---------------------------------------------------------------------------
(* The analyze-fatigue function (src/supabase/functions/analyze-fatigue/   *)
(* index.ts): one request in, one response out.                            *)

RiskLevels == {"low", "moderate", "high", "critical"}

\* The request: the fields of fatigueData that reach the response.
FatigueRequests ==
    [alertLevel : {"alert", "drowsy", "fatigued", "severe", "critical"},
     noddingDetected : BOOLEAN]

\* The gateway's reply: its HTTP status and choices[0].message.content,
\* either text that JSON.parse rejects or a JSON value; of a JSON value,
\* its riskLevel ("missing" when it has none) and the number of entries of
\* its recommendations (0 when it has none).
GatewayStatuses == {200, 402, 429, 503}
GatewayContents ==
    [json : {FALSE}, riskLevel : {"missing"}, recommendations : {0}]
        \cup [json : {TRUE},
              riskLevel : RiskLevels \cup {"extreme", "missing"},
              recommendations : 0..5]

ErrorResponse(status) ==
    [status |-> status, body |-> "error", riskLevel |-> "missing",
     recommendations |-> 0, warningSign |-> FALSE]

\* lines 94-114: the parsed content as it is, or the fallback built from
\* the request when JSON.parse throws
ParseResult(fatigueData, content) ==
    IF content.json
        THEN [status |-> 200, body |-> "analysis",
              riskLevel |-> content.riskLevel,
              recommendations |-> content.recommendations,
              warningSign |-> FALSE]
        ELSE [status |-> 200, body |-> "analysis",
              riskLevel |-> IF fatigueData.alertLevel = "critical"
                                THEN "critical"
                            ELSE IF fatigueData.alertLevel = "severe"
                                THEN "high"
                            ELSE IF fatigueData.alertLevel = "fatigued"
                                THEN "moderate"
                            ELSE "low",
              recommendations |-> 3,
              warningSign |-> fatigueData.noddingDetected]

\* the handler passed to serve
serve(method, fatigueData, keyConfigured, gatewayStatus, content) ==
    /\ served' =
           [method |-> method,
            fatigueData |-> fatigueData,
            response |->
                IF method = "OPTIONS"
                    THEN [status |-> 200, body |-> "none",
                          riskLevel |-> "missing", recommendations |-> 0,
                          warningSign |-> FALSE]
                ELSE IF ~keyConfigured THEN ErrorResponse(500)
                ELSE IF gatewayStatus = 429 THEN ErrorResponse(429)
                ELSE IF gatewayStatus = 402 THEN ErrorResponse(402)
                ELSE IF gatewayStatus # 200 THEN ErrorResponse(500)
                ELSE ParseResult(fatigueData, content)]
    /\ UNCHANGED <<isModelLoaded, published, session, loops, environment,
                   observers, analyzer, loader, notifier>>

NextServe ==
    \E method \in {"OPTIONS", "POST"}, fatigueData \in FatigueRequests,
       keyConfigured \in BOOLEAN, gatewayStatus \in GatewayStatuses,
       content \in GatewayContents :
        serve(method, fatigueData, keyConfigured, gatewayStatus, content)

SpecServe == Init /\ [][NextServe]_vars

---------------------------------------------------------------------------
(* The AlertSystem component (src/unnamed/part_000): rendered with the     *)
(* published alert level, it raises a toast from its effect.               *)

\* Renders of the component in one behaviour.
MaxAlertRenders == 4
\* one snapshot for each level of the cascade
AlertPerclos == {0, 250, 350, 500, 700}
AlertInputs ==
    {[defaultMetrics EXCEPT !.perclos = p, !.faceDetected = TRUE] :
        p \in AlertPerclos}

\* the effect with the last notified level forgotten below severe
AlertEffectResetBelowSevere(n, level) ==
    LET shouldNotify == /\ level \in {"severe", "critical"}
                        /\ n.lastNotifiedLevel # level
        notified ==
            IF shouldNotify
                THEN [n EXCEPT !.toasts = Append(@, level),
                               !.lastNotifiedLevel = level]
                ELSE n
    IN  IF level \notin {"severe", "critical"}
            THEN [notified EXCEPT !.lastNotifiedLevel = "alert"]
            ELSE notified

\* one run of the notification effect (lines 57-78) for the level rendered
AlertEffect(n, level) ==
    LET shouldNotify == /\ level \in {"severe", "critical"}
                        /\ n.lastNotifiedLevel # level
        notified ==
            IF shouldNotify
                THEN [n EXCEPT !.toasts = Append(@, level),
                               !.lastNotifiedLevel = level]
                ELSE n
    IN  IF level = "alert"
            THEN [notified EXCEPT !.lastNotifiedLevel = "alert"]
            ELSE notified

\* A snapshot is published and AlertSystem is rendered with its level: the
\* effect runs, and runs once more after the render that
\* setLastNotifiedLevel causes (lastNotifiedLevel is a dependency).
AlertRender(newMetrics) ==
    LET level == determineAlertLevel(newMetrics)
        rendered == [notifier EXCEPT !.seen = Append(@, level)]
    IN  /\ Len(notifier.seen) < MaxAlertRenders
        /\ metrics' = newMetrics
        /\ alertLevel' = level
        /\ notifier' = AlertEffect(AlertEffect(rendered, level), level)
        /\ UNCHANGED <<isModelLoaded, history, session, loops, environment,
                       observers, analyzer, loader, served>>

NextAlerts == \E m \in AlertInputs : AlertRender(m)

SpecAlerts == Init /\ [][NextAlerts]_vars

---------------------------------------------------------------------------
(* Properties *)

\* a step on which a face-detected frame was processed (the only step that
\* reads the clock)
FaceStep == last'.op = "face" /\ now' # now

\* the session state a stale continuation must not touch
sessionData == <<eyeClosedFrames, totalFrames, blinkTimestamps,
                 yawnTimestamps, headPoseHistory, lastEyeState,
                 lastHistoryUpdate>>

\* C1: the published alert level is the first matching level of the cascade
\* critical (perclos >= 70, or nodding and perclos >= 40), severe
\* (perclos >= 50 or yawnFrequency >= 5), fatigued (perclos >= 35 or
\* yawnFrequency >= 3), drowsy (perclos >= 25 or blinkRate outside 8..25),
\* alert; with the boundary cases perclos = 70 critical, 69.9 with five
\* yawns severe, 25 drowsy, 10 alert.
C1_Cascade ==
    LET m == metrics
        crit == m.perclos >= 700 \/ (m.noddingDetected /\ m.perclos >= 400)
        sev == m.perclos >= 500 \/ m.yawnFrequency >= 5
        fat == m.perclos >= 350 \/ m.yawnFrequency >= 3
        drow == m.perclos >= 250 \/ m.blinkRate < 8 \/ m.blinkRate > 25
    IN  /\ (alertLevel = "critical") <=> crit
        /\ (alertLevel = "severe") <=> (~crit /\ sev)
        /\ (alertLevel = "fatigued") <=> (~crit /\ ~sev /\ fat)
        /\ (alertLevel = "drowsy") <=> (~crit /\ ~sev /\ ~fat /\ drow)
        /\ (alertLevel = "alert") <=> (~crit /\ ~sev /\ ~fat /\ ~drow)
        /\ (m.perclos = 700 /\ ~m.noddingDetected) => alertLevel = "critical"
        /\ (m.perclos = 699 /\ m.yawnFrequency = 5 /\ ~m.noddingDetected)
               => alertLevel = "severe"
        /\ (m.perclos = 250 /\ m.blinkRate = 15 /\ m.yawnFrequency = 0
               /\ ~m.noddingDetected) => alertLevel = "drowsy"
        /\ (m.perclos = 100 /\ m.blinkRate = 15 /\ m.yawnFrequency = 0)
               => alertLevel = "alert"

C1_Witness ==
    /\ metrics.perclos = 700
    /\ ~metrics.noddingDetected
    /\ metrics.yawnFrequency = 0
    /\ alertLevel = "critical"

\* C2: a detection that was outstanding when stopDetection was called
\* changes, on settling, neither the session state nor what is published.
C2_NoPostStopMutation ==
    [][(last'.op \in {"face", "noface", "error"} /\ last'.orphan
            /\ orphaned' < orphaned)
        => UNCHANGED <<sessionData, published>>]_vars

\* C3: at most one detector call is in flight and at most one detection
\* loop is alive, whatever the order of start and stop calls.
C3_SingleLoop ==
    /\ awaiting + orphaned <= 1
    /\ liveLoops <= 1

\* C4: right after stopDetection every piece of session state has its
\* initial value, lastEyeState and lastHistoryUpdate included.
C4_StopResetsAll ==
    last.op = "stop" =>
        /\ eyeClosedFrames = 0
        /\ totalFrames = 0
        /\ blinkTimestamps = <<>>
        /\ yawnTimestamps = <<>>
        /\ headPoseHistory = <<>>
        /\ frameSkip = 0
        /\ lastEyeState = TRUE
        /\ lastHistoryUpdate = 0

\* C5: after a stopDetection called with no detection in flight, and until
\* the next startDetection, no iteration is left scheduled to run.
C5_StopCancelsScheduled == stoppedIdle => scheduled = {}

\* C6: 0 <= eyeClosedFrames <= totalFrames, and the published perclos lies
\* in [0, 100] (0..1000 tenths).
C6_PerclosRange ==
    /\ 0 <= eyeClosedFrames
    /\ eyeClosedFrames <= totalFrames
    /\ 0 <= metrics.perclos
    /\ metrics.perclos <= 1000

C6_Witness ==
    /\ totalFrames >= 2
    /\ eyeClosedFrames = 1
    /\ metrics.perclos = 500
    /\ last.op = "face"

\* C7: the blinkRate published on a face-detected frame is the number of
\* blink events less than 60,000 ms old at that frame.
C7_BlinkRateWindowed ==
    last.op = "face" =>
        metrics.blinkRate =
            Cardinality({i \in DOMAIN blinkTimestamps :
                            now - blinkTimestamps[i] < 60000})

\* a blink event was recorded on this step
BlinkRecorded == blinkTimestamps' # <<>> /\ Last(blinkTimestamps') = now'

\* C8: a face-detected frame records a blink exactly when the eyes were
\* open on the previous face-detected frame (open initially) and are closed
\* on this one; metrics.eyesOpen is the eye state last published.
C8_BlinkEdgeTriggered ==
    [][FaceStep =>
         /\ BlinkRecorded <=> (metrics.eyesOpen /\ ~metrics'.eyesOpen)
         /\ ~BlinkRecorded => blinkTimestamps' = blinkTimestamps]_vars

\* closed, then closed again: one blink, recorded on the first frame only
C8_Witness ==
    /\ last.op = "face"
    /\ totalFrames = 2
    /\ eyeClosedFrames = 2
    /\ Len(blinkTimestamps) = 1
    /\ blinkTimestamps[1] < now

\* a yawn event was recorded on this step
YawnRecorded == yawnTimestamps' # <<>> /\ Last(yawnTimestamps') = now'

\* C9: a face-detected frame with mouthOpenRatio > 0.5 records a yawn
\* exactly when the yawn list is empty or its latest entry is more than
\* 5000 ms old; a frame with the mouth closed records none.
C9_YawnDebounce ==
    [][FaceStep =>
         IF metrics'.mouthOpenRatio > 50
             THEN YawnRecorded <=>
                     (yawnTimestamps = <<>>
                         \/ now' - Last(yawnTimestamps) > 5000)
             ELSE ~YawnRecorded]_vars

\* two mouth-open frames 6000 ms apart: two events
C9_Witness ==
    /\ last.op = "face"
    /\ metrics.mouthOpenRatio > 50
    /\ Len(yawnTimestamps) = 2
    /\ yawnTimestamps[2] - yawnTimestamps[1] = 6000
    /\ yawnTimestamps[2] = now

\* C10 as claimed: an uninterrupted run of mouth-open frames records at
\* most one yawn event, however long it lasts.
C10_OneYawnPerRun == yawnRun.events <= 1

\* C10 as amended: an uninterrupted run of mouth-open frames that spans at
\* most 5000 ms records at most one yawn event.
C10_OneYawnPerDebounce ==
    (yawnRun.frames > 0 /\ now - yawnRun.first <= 5000) => yawnRun.events <= 1

\* a run of two frames 5000 ms apart with its single event
C10_Witness ==
    /\ yawnRun.frames = 2
    /\ now - yawnRun.first = 5000
    /\ yawnRun.events = 1
    /\ Len(yawnTimestamps) = 1

\* C11: in the state a face-detected frame leaves, every retained yawn
\* timestamp is less than 60000 ms old and every retained pitch sample less
\* than 3000 ms old, and the published yawnFrequency and nod decision are
\* those of the retained entries.
C11_WindowsFresh ==
    last.op = "face" =>
        /\ \A i \in DOMAIN yawnTimestamps : now - yawnTimestamps[i] < 60000
        /\ \A i \in DOMAIN headPoseHistory :
               now - headPoseHistory[i].timestamp < 3000
        /\ metrics.yawnFrequency = Len(yawnTimestamps)
        /\ metrics.noddingDetected =
               (/\ Len(headPoseHistory) > 10
                /\ \E i, j \in DOMAIN headPoseHistory :
                       headPoseHistory[i].pitch - headPoseHistory[j].pitch > 15)

\* a yawn recorded 61000 ms before this frame's yawn has left the window,
\* and so has the pitch sample of that frame
C11_Witness ==
    /\ last.op = "face"
    /\ yawnTimestamps = <<now>>
    /\ Len(headPoseHistory) = 1
    /\ Len(history) = 2
    /\ history[1].yawnCount = 1
    /\ now - history[1].timestamp = 61000

\* C12: after a face-detected frame noddingDetected is true exactly when the
\* pitch window (with this frame's sample, pruned to 3000 ms) holds more
\* than 10 samples and the largest pitch exceeds the smallest by more than
\* 15; so 10 samples never nod, 11 samples spanning 16 do, 11 spanning 14
\* do not.
C12_NodRule ==
    last.op = "face" =>
        LET n == Len(headPoseHistory)
            spread == \E i, j \in 1..n :
                          headPoseHistory[i].pitch - headPoseHistory[j].pitch > 15
        IN  /\ n >= 1
            /\ headPoseHistory[n] = [pitch |-> metrics.headPose.pitch,
                                     timestamp |-> now]
            /\ \A i \in 1..n : now - headPoseHistory[i].timestamp < 3000
            /\ n <= 10 => ~metrics.noddingDetected
            /\ n > 10 => (metrics.noddingDetected <=> spread)

\* eleven samples within 3000 ms whose pitch spans 16 degrees: nodding
C12_Witness ==
    /\ last.op = "face"
    /\ Len(headPoseHistory) = 11
    /\ headPoseHistory[1].pitch = 0
    /\ headPoseHistory[11].pitch = 16
    /\ now - headPoseHistory[1].timestamp = 2900
    /\ metrics.noddingDetected

\* a step on which a detector call settled
SettleStep == awaiting' + orphaned' < awaiting + orphaned

\* C13: a processed frame without a face publishes the previous metrics
\* with only faceDetected set to false; the counters, the three lists,
\* lastEyeState, the time of the last history entry, the alert level and
\* the history stay as they were.
C13_NoFaceKeepsState ==
    [][(SettleStep /\ last'.op = "noface") =>
         /\ metrics' = [metrics EXCEPT !.faceDetected = FALSE]
         /\ UNCHANGED <<alertLevel, history, session>>]_vars

\* the face is lost after a frame with the eyes closed: the snapshot of
\* that frame stays published, the counters stay
C13_Witness ==
    /\ last.op = "noface"
    /\ ~metrics.faceDetected
    /\ metrics.perclos = 1000
    /\ ~metrics.eyesOpen
    /\ alertLevel = "critical"
    /\ totalFrames = 1
    /\ eyeClosedFrames = 1
    /\ Len(history) = 1

\* C14: when the detector call throws, no counter, list or flag of the
\* session changes and nothing is published, and one new iteration is
\* scheduled whose handle is stored, as after a processed frame.
C14_ErrorSkipsFrame ==
    [][(SettleStep /\ last'.op = "error") =>
         /\ UNCHANGED <<session, published>>
         /\ animationRef' \notin scheduled
         /\ animationRef' # NULL
         /\ scheduled' = scheduled \cup {animationRef'}]_vars

\* the detector throws on the frame after a face-detected frame: the
\* counters are kept and the next iteration is scheduled
C14_Witness ==
    /\ last.op = "error"
    /\ ~last.orphan
    /\ totalFrames = 1
    /\ metrics.faceDetected
    /\ animationRef \in scheduled

\* C15: the history buffer holds at most 60 entries in every reachable
\* state.
C15_HistoryBound == Len(history) <= 60

\* a history entry stamped with this frame's time was appended on this step
HistoryAppended ==
    /\ Len(history') = Len(history) + 1
    /\ Last(history').timestamp = now'

\* C16: a face-detected frame appends a history entry exactly when at least
\* 5000 ms have passed since the last append; no other step (a skipped
\* frame, a frame without a face, a detector error) changes the history.
C16_HistoryCadence ==
    [][IF FaceStep
           THEN HistoryAppended <=> now' - lastHistoryUpdate >= 5000
           ELSE history' = history]_vars

\* C17: a stopDetection() call that directly follows another one (with or
\* without a session having run) changes nothing: the session state, the
\* animation-frame queue and the published state after the second call are
\* those the first call left, with the counters at 0 and the lists empty.
C17_StopIdempotent ==
    [][(last.op = "stop" /\ ~last.again /\ last'.again) =>
         /\ UNCHANGED <<session, published, loops>>
         /\ animationRef' = NULL
         /\ eyeClosedFrames' = 0 /\ totalFrames' = 0 /\ frameSkip' = 0
         /\ blinkTimestamps' = <<>> /\ yawnTimestamps' = <<>>
         /\ headPoseHistory' = <<>>]_vars

\* a session that processed a frame and then was stopped twice
C17_Witness ==
    /\ last.op = "stop"
    /\ last.again
    /\ liveLoops = 0
    /\ lastHistoryUpdate > 0
    /\ totalFrames = 0

\* C18: a startDetection() call made while the model is not loaded starts
\* no loop: no detector call is made, no iteration is scheduled, and no
\* session state and no published state changes.
C18_StartNeedsModel ==
    [][(last'.op = "start" /\ ~isModelLoaded /\ ~isModelLoaded') =>
         UNCHANGED <<session, published, loops>>]_vars

\* startDetection() was called with the video playing and the model not
\* loaded: nothing is scheduled and no detector call was made
C18_Witness ==
    /\ last.op = "start"
    /\ ~isModelLoaded
    /\ ~videoPaused
    /\ liveLoops = 0
    /\ detections = 0
    /\ frameSkip = 0

RECURSIVE SquaredIntervals(_)
\* the sum of the squared intervals between consecutive timestamps
SquaredIntervals(timestamps) ==
    IF Len(timestamps) < 2 THEN 0
    ELSE (timestamps[2] - timestamps[1]) * (timestamps[2] - timestamps[1])
             + SquaredIntervals(Tail(timestamps))

\* C19: determineBlinkPattern is normal for fewer than 5 timestamps;
\* otherwise irregular when the population variance of the intervals
\* (mean of the squares minus the square of the mean) exceeds 50000,
\* whatever the rate; otherwise slow for a rate below 8, rapid for a rate
\* above 25, and normal for the rest.
C19_BlinkPattern ==
    LET n == Len(blinkTimestamps) - 1
        sum == Last(blinkTimestamps) - blinkTimestamps[1]
        squares == SquaredIntervals(blinkTimestamps)
    IN  metrics.blinkPattern =
            IF Len(blinkTimestamps) < 5 THEN "normal"
            ELSE IF n * squares - sum * sum > 50000 * n * n THEN "irregular"
            ELSE IF metrics.blinkRate < 8 THEN "slow"
            ELSE IF metrics.blinkRate > 25 THEN "rapid"
            ELSE "normal"

\* five timestamps at intervals 700, 1300, 700, 1300 (variance 90000) with
\* a rate of 26: irregular, not rapid
C19_Witness ==
    /\ Len(blinkTimestamps) = 5
    /\ blinkTimestamps[2] - blinkTimestamps[1] = 700
    /\ blinkTimestamps[3] - blinkTimestamps[2] = 1300
    /\ blinkTimestamps[4] - blinkTimestamps[3] = 700
    /\ blinkTimestamps[5] - blinkTimestamps[4] = 1300
    /\ metrics.blinkRate = 26
    /\ metrics.blinkPattern = "irregular"

\* C20: any two analysis requests are initiated at least 30000 ms apart;
\* an analyzeMetrics call made less than 30000 ms after the last initiated
\* request, or with faceDetected false, sends nothing and leaves analysis,
\* error, isAnalyzing and the cooldown timestamp as they were.
C20_AnalysisCooldown ==
    [][/\ \A i, j \in DOMAIN analysisLog'.sent :
              i < j => analysisLog'.sent[j] - analysisLog'.sent[i] >= 30000
       /\ (/\ analysisLog'.calls # analysisLog.calls
           /\ \/ ~analysisLog'.face
              \/ /\ analysisLog.sent # <<>>
                 /\ now' - Last(analysisLog.sent) < 30000)
              => /\ UNCHANGED <<analysis, error, isAnalyzing,
                                lastAnalysisTime, requests>>
                 /\ analysisLog'.sent = analysisLog.sent]_vars

\* four calls 10000 ms apart with a face: the first and the fourth sent a
\* request, the two in between sent nothing
C20_Witness ==
    /\ analysisLog.calls = 4
    /\ analysisLog.face
    /\ Len(analysisLog.sent) = 2
    /\ analysisLog.sent[2] - analysisLog.sent[1] = 30000
    /\ now = analysisLog.sent[2]
    /\ lastAnalysisTime = now
    /\ isAnalyzing

\* a step on which an analysis request settled
AnalysisSettleStep == requests' # requests /\ requests' \subseteq requests

\* C21: a failed analysis request sets the error string and clears
\* isAnalyzing and nothing else: the stored analysis is kept, and the
\* session state, the published metrics, alert level and history of the
\* detection loop are unchanged.
C21_FailureIsolated ==
    [][(AnalysisSettleStep /\ analysisLog'.settled = "failure") =>
         /\ error' # <<>>
         /\ ~isAnalyzing'
         /\ UNCHANGED <<analysis, lastAnalysisTime>>
         /\ UNCHANGED <<session, published, loops, isModelLoaded>>]_vars

\* a request fails while an earlier analysis is stored and the session has
\* processed two frames: the analysis and the snapshot stay
C21_Witness ==
    /\ analysisLog.settled = "failure"
    /\ error # <<>>
    /\ analysis # <<>>
    /\ ~isAnalyzing
    /\ requests = {}
    /\ totalFrames = 2
    /\ metrics.faceDetected
    /\ alertLevel = "critical"

C23_ResponseContract ==
    (/\ served.method = "POST"
     /\ served.response.status = 200) =>
        /\ served.response.riskLevel \in RiskLevels
        /\ served.response.recommendations \in 3..4

---------------------------------------------------------------------------
\* C24: while a session is running (startDetection called, stopDetection
\* not yet called) there is always an iteration scheduled or a detection
\* in flight, whatever the state of the video source.  Without a stop the
\* frame-skip counter is never reset, so a positive counter tells that an
\* invocation of detect has run in the session that is still running.
C24_LoopNeverEnds ==
    frameSkip > 0 => (scheduled # {} \/ awaiting > 0)

---------------------------------------------------------------------------
---------------------------------------------------------------------------
\* an invocation of detect that got past the paused/ended test: the only
\* step that advances the frame-skip counter by one
DetectInvoked == frameSkip' = frameSkip + 1

\* C26: every invocation of detect advances the frame-skip counter by one
\* and is processed (one detector call) exactly when the new count is even,
\* so a loop processes every second invocation and the first invocation of
\* a fresh session is skipped; a skipped invocation makes no detector call,
\* changes nothing but the counter and schedules the next iteration.
C26_EverySecondFrame ==
    [][DetectInvoked =>
         /\ (frameSkip = 0 /\ last'.op = "start") => awaiting' = awaiting
         /\ IF frameSkip' % 2 = 0
                THEN /\ awaiting' = awaiting + 1
                     /\ detections' = detections + 1
                     /\ scheduled' \subseteq scheduled
                ELSE /\ UNCHANGED <<awaiting, orphaned, detections>>
                     /\ UNCHANGED <<sessionData, published, isModelLoaded>>
                     /\ animationRef' \in scheduled'
                     /\ animationRef' # animationRef
                     /\ Cardinality(scheduled') >= Cardinality(scheduled)]_vars

\* a single loop has skipped its first invocation and processed the second
C26_Witness ==
    /\ last.op = "frame"
    /\ frameSkip = 2
    /\ liveLoops = 1
    /\ awaiting = 1
    /\ detections = 1

---------------------------------------------------------------------------
\* C27: PERCLOS is cumulative over the session.  Each face-detected
\* processed frame adds one to totalFrames and one to eyeClosedFrames
\* exactly when the eyes are closed, and publishes 100 * eyeClosedFrames /
\* totalFrames rounded to one decimal (half up), however long ago the
\* earlier frames were; no step but stopDetection decreases a counter.
C27_PerclosCumulative ==
    [][/\ FaceStep =>
            /\ totalFrames' = totalFrames + 1
            /\ eyeClosedFrames' =
                   eyeClosedFrames + (IF metrics'.eyesOpen THEN 0 ELSE 1)
            /\ 2 * (metrics'.perclos * totalFrames'
                       - 1000 * eyeClosedFrames') <= totalFrames'
            /\ 2 * (1000 * eyeClosedFrames'
                       - metrics'.perclos * totalFrames') < totalFrames'
       /\ last'.op # "stop" =>
            /\ totalFrames' >= totalFrames
            /\ eyeClosedFrames' >= eyeClosedFrames]_vars

\* one closed frame out of three, the first of them more than two minutes
\* before the third: the published perclos is still 33.3
C27_Witness ==
    /\ last.op = "face"
    /\ totalFrames = 3
    /\ eyeClosedFrames = 1
    /\ ~lastEyeState
    /\ blinkTimestamps = <<now>>
    /\ metrics.perclos = 333
    /\ \E i \in DOMAIN history : now - history[i].timestamp >= 122000

---------------------------------------------------------------------------
\* C28: in a session in which every face-detected frame so far had the eyes
\* closed, the snapshot published by a face-detected frame has perclos =
\* 100.0 and the published alert level is critical, from the first
\* processed frame on.
C28_AllClosedCritical ==
    (/\ last.op = "face"
     /\ totalFrames >= 1
     /\ eyeClosedFrames = totalFrames) =>
        /\ metrics.perclos = 1000
        /\ alertLevel = "critical"

\* the first processed frame of a session, eyes closed
C28_Witness ==
    /\ last.op = "face"
    /\ totalFrames = 1
    /\ eyeClosedFrames = 1
    /\ ~metrics.eyesOpen
    /\ ~metrics.noddingDetected
    /\ metrics.yawnFrequency = 0
    /\ alertLevel = "critical"

---------------------------------------------------------------------------
\* C29 as stated: with nodding not detected, a published level of critical
\* implies 100 * eyeClosedFrames >= 70 * totalFrames on the unrounded
\* counters.
C29_CriticalAtSeventy ==
    (/\ metrics.faceDetected
     /\ ~metrics.noddingDetected
     /\ alertLevel = "critical") =>
        100 * eyeClosedFrames >= 70 * totalFrames

\* C29 amended: with nodding not detected, the published level is critical
\* exactly when the ratio rounded to one decimal reaches 70.0, that is when
\* 100 * eyeClosedFrames / totalFrames >= 69.95.
C29_CriticalAtRoundedSeventy ==
    (/\ metrics.faceDetected
     /\ ~metrics.noddingDetected) =>
        /\ (alertLevel = "critical") <=> (metrics.perclos >= 700)
        /\ (metrics.perclos >= 700) <=>
               (2000 * eyeClosedFrames >= 1399 * totalFrames)

\* a ratio below 70% published as 70.0 and classified critical
C29_Witness ==
    /\ metrics.faceDetected
    /\ ~metrics.noddingDetected
    /\ alertLevel = "critical"
    /\ metrics.perclos = 700
    /\ 100 * eyeClosedFrames < 70 * totalFrames

---------------------------------------------------------------------------
\* C30: a history entry appended by a frame carries the perclos, blinkRate
\* and yawnCount of the metrics snapshot published by that frame, and its
\* alertLevel is the alert level published by that frame.  (The frame that
\* has just run appended an entry exactly when lastHistoryUpdate is its
\* Date.now() reading.)
C30_HistoryMatchesSnapshot ==
    (/\ last.op = "face"
     /\ lastHistoryUpdate = now) =>
        /\ history # <<>>
        /\ Last(history).perclos = metrics.perclos
        /\ Last(history).blinkRate = metrics.blinkRate
        /\ Last(history).yawnCount = metrics.yawnCount
        /\ Last(history).alertLevel = alertLevel

\* an open-eye frame then a closed-eye frame, each appending an entry: the
\* second entry carries the new perclos, blink count and level
C30_Witness ==
    /\ last.op = "face"
    /\ lastHistoryUpdate = now
    /\ Len(history) = 2
    /\ history[1].alertLevel = "drowsy"
    /\ history[1].perclos = 0
    /\ history[2].perclos = 500
    /\ history[2].blinkRate = 1
    /\ history[2].alertLevel = "severe"
    /\ metrics.perclos = 500
    /\ alertLevel = "severe"

---------------------------------------------------------------------------
\* C31: in every published metrics snapshot yawnCount equals yawnFrequency,
\* and on the frame that publishes it both are the number of yawn events
\* retained in the 60-second window.
C31_YawnCountIsFrequency ==
    /\ metrics.yawnCount = metrics.yawnFrequency
    /\ last.op = "face" =>
           /\ metrics.yawnCount = Len(yawnTimestamps)
           /\ \A i \in DOMAIN yawnTimestamps :
                  now - yawnTimestamps[i] < 60000

\* a frame that records the second yawn event of the window
C31_Witness ==
    /\ last.op = "face"
    /\ Len(yawnTimestamps) = 2
    /\ yawnTimestamps[2] = now
    /\ metrics.yawnCount = 2
    /\ metrics.yawnFrequency = 2

---------------------------------------------------------------------------
\* the load completes or fails on this step
LoadOutcome == loaderLog'.outcomes = loaderLog.outcomes + 1

---------------------------------------------------------------------------
\* C33: in every reachable state (the initial defaults, after frames with
\* and without a face, after detector errors, after stop) the published
\* alert level is determineAlertLevel of the published metrics.
C33_LevelMatchesMetrics == alertLevel = determineAlertLevel(metrics)

\* stopped after a closed-eye frame and a frame without a face: the level
\* of the last face frame is still published, with faceDetected false
C33_Witness ==
    /\ last.op = "stop"
    /\ totalFrames = 0
    /\ ~metrics.faceDetected
    /\ metrics.perclos = 1000
    /\ alertLevel = "critical"

---------------------------------------------------------------------------
\* the blink events of the 60000 ms before the frame that has just run
blinksInWindow ==
    Cardinality({i \in DOMAIN blinkTimestamps :
                    now - blinkTimestamps[i] < 60000})

\* C34: a face-detected frame publishes the level alert only if at least 8
\* and at most 25 blink events are in the blink window, perclos < 25 and
\* yawnFrequency < 3.
C34_AlertNeedsBlinks ==
    (last.op = "face" /\ alertLevel = "alert") =>
        /\ blinksInWindow >= 8
        /\ blinksInWindow <= 25
        /\ metrics.perclos < 250
        /\ metrics.yawnFrequency < 3

---------------------------------------------------------------------------
\* C35: stopDetection() leaves the published metrics (faceDetected
\* included), the published alert level and the history buffer as they
\* were, and so does the startDetection() that follows: the history of a
\* stopped session is still there when the next one starts.
C35_StopKeepsPublished ==
    [][last'.op \in {"stop", "start"} =>
           UNCHANGED <<metrics, alertLevel, history>>]_vars

\* a session restarted after a stop: the snapshot, the level and the
\* history entry of the stopped session are still published
C35_Witness ==
    /\ last.op = "start"
    /\ totalFrames = 0
    /\ frameSkip = 1
    /\ metrics.faceDetected
    /\ metrics.perclos = 1000
    /\ alertLevel = "critical"
    /\ Len(history) = 1

---------------------------------------------------------------------------
\* C36: in every published snapshot yawnFrequency is at most 12: the
\* recorded yawn events are more than 5000 ms apart and, on the frame that
\* publishes, all retained events are less than 60000 ms old.
C36_YawnFrequencyBound ==
    /\ metrics.yawnFrequency <= 12
    /\ \A i \in DOMAIN yawnTimestamps :
           i > 1 => yawnTimestamps[i] - yawnTimestamps[i - 1] > 5000
    /\ last.op = "face" =>
           \A i \in DOMAIN yawnTimestamps : now - yawnTimestamps[i] < 60000

\* thirteen mouth-open frames 5001 ms apart: the thirteenth event pushes
\* the first out of the window and twelve are published
C36_Witness ==
    /\ last.op = "face"
    /\ totalFrames = 13
    /\ metrics.yawnFrequency = 12
    /\ Len(yawnTimestamps) = 12
    /\ yawnTimestamps[12] = now
    /\ now - yawnTimestamps[1] = 55011

---------------------------------------------------------------------------
\* AlertLevel in increasing order of severity
LevelRank(level) ==
    CASE level = "alert" -> 0
      [] level = "drowsy" -> 1
      [] level = "fatigued" -> 2
      [] level = "severe" -> 3
      [] level = "critical" -> 4

\* snapshot b has the blink rate of a and fatigue signals at least as high
AtLeastAsTired(a, b) ==
    /\ b.blinkRate = a.blinkRate
    /\ b.perclos >= a.perclos
    /\ b.yawnFrequency >= a.yawnFrequency
    /\ a.noddingDetected => b.noddingDetected

\* C37: determineAlertLevel is monotone in perclos, yawnFrequency and
\* noddingDetected at a fixed blinkRate: the level of the published
\* snapshot is at least the level of every snapshot with the same blink
\* rate and no higher signal, in the order alert < drowsy < fatigued <
\* severe < critical.
C37_LevelMonotone ==
    \A m \in ClassifierInputs :
        AtLeastAsTired(m, metrics) =>
            LevelRank(determineAlertLevel(m)) <= LevelRank(alertLevel)

\* nodding added to perclos 40.0 with two yawns lifts fatigued to critical
C37_Witness ==
    /\ metrics.perclos = 400
    /\ metrics.yawnFrequency = 2
    /\ metrics.noddingDetected
    /\ alertLevel = "critical"
    /\ \E m \in ClassifierInputs :
           /\ AtLeastAsTired(m, metrics)
           /\ m.perclos = 400 /\ ~m.noddingDetected
           /\ determineAlertLevel(m) = "fatigued"

---------------------------------------------------------------------------
\* C38: isAnalyzing is true exactly while at least one analysis request is
\* outstanding, also when a request outlasts the cooldown and a second one
\* is sent meanwhile.
C38_AnalyzingWhileOutstanding == isAnalyzing <=> requests # {}

---------------------------------------------------------------------------
\* C39: the cooldown runs from the moment a request is sent and is not
\* touched when the request settles; after a request that failed, a call
\* of analyzeMetrics less than 30000 ms after the last send sends nothing
\* and leaves the error as it is.
C39_CooldownFromSend ==
    [][/\ analysisLog'.sent # analysisLog.sent => lastAnalysisTime' = now'
       /\ AnalysisSettleStep => UNCHANGED lastAnalysisTime
       /\ (/\ analysisLog'.calls # analysisLog.calls
           /\ analysisLog.settled = "failure"
           /\ error # <<>>
           /\ analysisLog.sent # <<>>
           /\ now' - Last(analysisLog.sent) < 30000)
              => /\ analysisLog'.sent = analysisLog.sent
                 /\ UNCHANGED <<requests, error, analysis, isAnalyzing,
                                lastAnalysisTime>>]_vars

\* a request failed and a call with a face 29999 ms after it was sent has
\* sent nothing: the error is still there
C39_Witness ==
    /\ analysisLog.calls = 2
    /\ analysisLog.face
    /\ analysisLog.settled = "failure"
    /\ Len(analysisLog.sent) = 1
    /\ now - analysisLog.sent[1] = 29999
    /\ lastAnalysisTime = analysisLog.sent[1]
    /\ requests = {}
    /\ error # <<>>

---------------------------------------------------------------------------
\* C40: AlertSystem raises a notification only when the level is severe or
\* critical and differs from the last notified level; the last notified
\* level is otherwise reset only when the level is alert; while the level
\* stays at one value no further notification is raised; severe, fatigued,
\* severe raises one notification and severe, critical, severe three.
C40_NotifyOnChange ==
    [][/\ notifier'.toasts # notifier.toasts =>
              /\ notifier'.toasts = Append(notifier.toasts, alertLevel')
              /\ alertLevel' \in {"severe", "critical"}
              /\ alertLevel' # notifier.lastNotifiedLevel
              /\ notifier'.lastNotifiedLevel = alertLevel'
       /\ (/\ notifier'.seen # notifier.seen
           /\ alertLevel' \in {"severe", "critical"}
           /\ alertLevel' # notifier.lastNotifiedLevel)
              => notifier'.toasts # notifier.toasts
       /\ (/\ notifier'.lastNotifiedLevel # notifier.lastNotifiedLevel
           /\ notifier'.toasts = notifier.toasts)
              => alertLevel' = "alert" /\ notifier'.lastNotifiedLevel = "alert"
       /\ alertLevel' = alertLevel => notifier'.toasts = notifier.toasts
       /\ notifier'.seen = <<"severe", "fatigued", "severe">>
              => notifier'.toasts = <<"severe">>
       /\ notifier'.seen = <<"severe", "critical", "severe">>
              => notifier'.toasts = <<"severe", "critical", "severe">>]_vars

\* severe, fatigued, severe and then severe once more: one notification
C40_Witness ==
    /\ notifier.seen = <<"severe", "fatigued", "severe", "severe">>
    /\ notifier.toasts = <<"severe">>
    /\ notifier.lastNotifiedLevel = "severe"
    /\ alertLevel = "severe"

===========================================================================
